---- MODULE Spec2Model ----
(***************************************************************************)
(* Model of tracking_analysis/analysis.py: construction of a Match from    *)
(* the match-metadata and structured-data documents, and the queries of    *)
(* Analysis (team and player possession shares, possession strings and     *)
(* their rendering).                                                       *)
(*                                                                         *)
(* Python values: None is the empty tuple and any other value v is the     *)
(* one-element tuple <<v>>, so that `x == None` and `x == y` are plain     *)
(* equalities.  A dict is the sequence of its <<key, value>> items in      *)
(* insertion order (Python dicts keep it, and the code depends on it).     *)
(* A raised exception ends the run: pc = "raised" and exc names it.        *)
(* Shares are integers in units of 10^-decimals (0.6 at 3 decimals = 600). *)
(* Fields that no modelled operation reads (time, period, locations,      *)
(* pitch size, number, player_role) are left out; the frame index of a     *)
(* record is always an integer.                                            *)
(***************************************************************************)
EXTENDS Integers, Sequences, FiniteSets, TLC

None == <<>>
Some(v) == <<v>>

\* analysis.py:19-20, the names registered for the ball and the referee
BALL == "ball"
REFEREE == "referee"
\* analysis.py:221 and 223, the group labels the team statistics count
HOME_GROUP == "home team"
AWAY_GROUP == "away team"
\* analysis.py:226-227 and 238, the decimals np.round keeps
TEAM_DECIMALS == 3
PLAYER_DECIMALS == 2

----------------------------------------------------------------------------
(* Bounds of the checked inputs *)
MaxPlayers == 2
MaxSegFrames == 4
MaxFrameIdx == 2
MaxStatFrames == 5

----------------------------------------------------------------------------
(* Python built-ins the code uses *)

\* bool(x) of an optional integer: None and 0 are falsy
Truthy(x) == x # None /\ x # Some(0)

DictHas(d, k) == \E i \in 1..Len(d) : d[i][1] = k

\* d.get(k, default)
DictGet(d, k, default) ==
    IF DictHas(d, k) THEN d[CHOOSE i \in 1..Len(d) : d[i][1] = k][2] ELSE default

\* d[k] = v: an existing key keeps its position, a new key goes last
DictSet(d, k, v) ==
    IF DictHas(d, k)
    THEN [i \in 1..Len(d) |-> IF d[i][1] = k THEN <<k, v>> ELSE d[i]]
    ELSE Append(d, <<k, v>>)

\* {k: v for k, v in items} and dict literals: items inserted left to right
RECURSIVE DictFromItems(_)
DictFromItems(items) ==
    IF items = <<>> THEN <<>>
    ELSE DictSet(DictFromItems(SubSeq(items, 1, Len(items) - 1)),
                 items[Len(items)][1], items[Len(items)][2])

\* Counter(xs): counts in first-encountered order
RECURSIVE CounterOf(_)
CounterOf(xs) ==
    IF xs = <<>> THEN <<>>
    ELSE LET c == CounterOf(SubSeq(xs, 1, Len(xs) - 1))
             x == xs[Len(xs)]
         IN  DictSet(c, x, DictGet(c, x, 0) + 1)

\* insert item into a sequence sorted by descending count, after its equals
RECURSIVE InsertByCountDesc(_, _)
InsertByCountDesc(s, item) ==
    IF s = <<>> THEN <<item>>
    ELSE IF s[1][2] >= item[2] THEN <<s[1]>> \o InsertByCountDesc(Tail(s), item)
    ELSE <<item>> \o s

\* Counter.most_common(): sorted by count, descending, stable
RECURSIVE MostCommon(_)
MostCommon(c) ==
    IF c = <<>> THEN <<>>
    ELSE InsertByCountDesc(MostCommon(SubSeq(c, 1, Len(c) - 1)), c[Len(c)])

RECURSIVE SumValues(_)
SumValues(c) == IF c = <<>> THEN 0 ELSE c[1][2] + SumValues(Tail(c))

RECURSIVE Pow10(_)
Pow10(d) == IF d = 0 THEN 1 ELSE 10 * Pow10(d - 1)

\* np.round(n / m, decimals), m > 0: n/m scaled by 10^decimals and rounded to
\* the nearest integer, halves to the even one (numpy's rint)
NpRound(n, m, decimals) ==
    LET scaled == n * Pow10(decimals)
        q == scaled \div m
        r == scaled % m
    IN  IF 2 * r < m THEN q
        ELSE IF 2 * r > m THEN q + 1
        ELSE IF q % 2 = 0 THEN q ELSE q + 1

\* insert m into a sequence sorted by frame, after the moments of equal frame
RECURSIVE InsertByFrame(_, _)
InsertByFrame(s, m) ==
    IF s = <<>> THEN <<m>>
    ELSE IF s[1].frame <= m.frame THEN <<s[1]>> \o InsertByFrame(Tail(s), m)
    ELSE <<m>> \o s

\* sorted(list_of_moments, key=lambda x: x.frame): stable
RECURSIVE SortedByFrame(_)
SortedByFrame(ms) ==
    IF ms = <<>> THEN <<>>
    ELSE InsertByFrame(SortedByFrame(SubSeq(ms, 1, Len(ms) - 1)), ms[Len(ms)])

----------------------------------------------------------------------------
(* State *)
VARIABLES
    match_json,           \* the match-metadata document
    structured_json,      \* the structured-data document: a list of frame records
    pc,                   \* where the program is
    exc,                  \* the exception raised, NoExc while none
    match,                \* the Match under construction, then Analysis.match
    sorted_moments,       \* _build_possession_strings: the sorted iterable
    idx,                  \* ... the position of the loop in it
    possession_strings,   \* ... its local possession_strings
    previous_possession,  \* ... its local previous_possession
    possession_buffer,    \* ... its local possession_buffer
    ret                   \* the value the last finished call returned

vars == <<match_json, structured_json, pc, exc, match, sorted_moments, idx,
          possession_strings, previous_possession, possession_buffer, ret>>

scan_vars == <<sorted_moments, idx, possession_strings, previous_possession,
               possession_buffer>>

NoExc == [type |-> "", in |-> ""]

Raised(type, in) == [type |-> type, in |-> in]

\* the attributes of a Match before __init__ has assigned them
NewMatch ==
    [home_team_name |-> None, home_team_id |-> None,
     away_team_name |-> None, away_team_id |-> None,
     ball_id |-> None, referee_id |-> None,
     home_team_players |-> <<>>, away_team_players |-> <<>>, all_players |-> <<>>,
     id_to_name |-> <<>>, name_to_id |-> <<>>, moments |-> <<>>]

----------------------------------------------------------------------------
(* Player, Moment *)

\* Player.__init__: every field read with .get(key, None)
Player(player_json) ==
    [last_name |-> player_json.last_name,
     player_id |-> player_json.trackable_object,
     team_id   |-> player_json.team_id]

\* Moment._get_possession needs a possession dict: None has no .get
MomentRaises(moment_json) == moment_json.possession = None

\* Moment.__init__ for a record whose possession entry is there
Moment(moment_json) ==
    [frame            |-> moment_json.frame,
     possession_id    |-> moment_json.possession[1].trackable_object,
     possession_group |-> moment_json.possession[1].group]

----------------------------------------------------------------------------
(* Match.__init__, one action per statement that can fail or that a later   *)
(* statement depends on                                                    *)

\* _get_team_info for both teams, _get_trackable_object(BALL)
GetTeamInfo ==
    /\ pc = "team_info"
    /\ match' = [match EXCEPT
                   !.home_team_name = match_json.home_team.acronym,
                   !.home_team_id   = match_json.home_team.id,
                   !.away_team_name = match_json.away_team.acronym,
                   !.away_team_id   = match_json.away_team.id,
                   !.ball_id        = match_json.ball]
    /\ pc' = "referee"
    /\ UNCHANGED <<match_json, structured_json, exc, scan_vars, ret>>

\* _get_referee: match_json.get(REFEREES, [])[0].get(TRACKABLE_OBJECT, None)
GetReferee ==
    /\ pc = "referee"
    /\ \/ /\ match_json.referees = <<>>
          /\ exc' = Raised("IndexError", "Match._get_referee")
          /\ pc' = "raised"
          /\ UNCHANGED match
       \/ /\ match_json.referees # <<>>
          /\ match' = [match EXCEPT !.referee_id = match_json.referees[1]]
          /\ pc' = "players"
          /\ UNCHANGED exc
    /\ UNCHANGED <<match_json, structured_json, scan_vars, ret>>

\* the test of _get_all_players that raises: neither the home nor the away id
TeamMismatch(p, home_id, away_id) == p.team_id # home_id /\ p.team_id # away_id

\* the index of the first player that raises, 0 when none does
FirstMismatch(players, home_id, away_id) ==
    LET bad == {i \in 1..Len(players) :
                   TeamMismatch(Player(players[i]), home_id, away_id)}
    IN  IF bad = {} THEN 0 ELSE CHOOSE i \in bad : \A j \in bad : i <= j

\* the players of ps appended to home_team_players (the first test that holds)
RECURSIVE HomePlayers(_, _)
HomePlayers(ps, home_id) ==
    IF ps = <<>> THEN <<>>
    ELSE (IF Player(ps[1]).team_id = home_id THEN <<Player(ps[1])>> ELSE <<>>)
         \o HomePlayers(Tail(ps), home_id)

\* the players of ps appended to away_team_players (the elif)
RECURSIVE AwayPlayers(_, _, _)
AwayPlayers(ps, home_id, away_id) ==
    IF ps = <<>> THEN <<>>
    ELSE (IF Player(ps[1]).team_id # home_id /\ Player(ps[1]).team_id = away_id
          THEN <<Player(ps[1])>> ELSE <<>>)
         \o AwayPlayers(Tail(ps), home_id, away_id)

\* _get_all_players: the loop, then all_players; or the raise, which leaves the
\* players before the offending one in the two lists
GetAllPlayers ==
    /\ pc = "players"
    /\ LET h == match.home_team_id
           a == match.away_team_id
           k == FirstMismatch(match_json.players, h, a)
           seen == IF k = 0 THEN match_json.players
                   ELSE SubSeq(match_json.players, 1, k - 1)
       IN  \/ /\ k # 0
              /\ match' = [match EXCEPT
                             !.home_team_players = HomePlayers(seen, h),
                             !.away_team_players = AwayPlayers(seen, h, a)]
              /\ exc' = Raised("IdMismatchException", "Match._get_all_players")
              /\ pc' = "raised"
           \/ /\ k = 0
              /\ match' = [match EXCEPT
                             !.home_team_players = HomePlayers(seen, h),
                             !.away_team_players = AwayPlayers(seen, h, a),
                             !.all_players =
                                 HomePlayers(seen, h) \o AwayPlayers(seen, h, a)]
              /\ pc' = "lookups"
              /\ UNCHANGED exc
    /\ UNCHANGED <<match_json, structured_json, scan_vars, ret>>

\* id_to_name of _build_lookups
IdToName(players, ball_id, referee_id) ==
    LET byPlayer == DictFromItems(
            [i \in 1..Len(players) |-> <<players[i].player_id, players[i].last_name>>])
    IN  DictSet(DictSet(byPlayer, ball_id, Some(BALL)), referee_id, Some(REFEREE))

\* name_to_id of _build_lookups: {v: k for k, v in self.id_to_name.items()}
NameToId(id_to_name) ==
    DictFromItems([i \in 1..Len(id_to_name) |-> <<id_to_name[i][2], id_to_name[i][1]>>])

BuildLookups ==
    /\ pc = "lookups"
    /\ LET i2n == IdToName(match.home_team_players \o match.away_team_players,
                           match.ball_id, match.referee_id)
       IN  match' = [match EXCEPT !.id_to_name = i2n, !.name_to_id = NameToId(i2n)]
    /\ pc' = "moments"
    /\ UNCHANGED <<match_json, structured_json, exc, scan_vars, ret>>

\* self.moments = [Moment(m) for m in self.structured_json]
BuildMoments ==
    /\ pc = "moments"
    /\ \/ /\ \E i \in 1..Len(structured_json) : MomentRaises(structured_json[i])
          /\ exc' = Raised("AttributeError", "Moment._get_possession")
          /\ pc' = "raised"
          /\ UNCHANGED match
       \/ /\ \A i \in 1..Len(structured_json) : ~MomentRaises(structured_json[i])
          /\ match' = [match EXCEPT !.moments =
                         [i \in 1..Len(structured_json) |-> Moment(structured_json[i])]]
          /\ pc' = "ready"
          /\ UNCHANGED exc
    /\ UNCHANGED <<match_json, structured_json, scan_vars, ret>>

----------------------------------------------------------------------------
(* Analysis.get_team_possession_stats *)

\* CountGroup as it would be with a comparison that ignores case
CountGroupIgnoringCase(ms, label) ==
    Cardinality({i \in 1..Len(ms) :
        \/ ms[i].possession_group = Some(label)
        \/ label = HOME_GROUP /\ ms[i].possession_group = Some("Home Team")})

\* the loop: the moments whose group is exactly the label
CountGroup(ms, label) ==
    Cardinality({i \in 1..Len(ms) : ms[i].possession_group = Some(label)})

\* the returned dict literal: the home entry, then the away entry
TeamShares(home_name, away_name, home_count, away_count) ==
    LET total_count == home_count + away_count
    IN  DictFromItems(<< <<home_name, NpRound(home_count, total_count, TEAM_DECIMALS)>>,
                         <<away_name, NpRound(away_count, total_count, TEAM_DECIMALS)>> >>)

GetTeamPossessionStats ==
    /\ pc = "ready"
    /\ LET home_count == CountGroup(match.moments, HOME_GROUP)
           away_count == CountGroup(match.moments, AWAY_GROUP)
       IN  \/ /\ home_count + away_count = 0
              /\ exc' = Raised("ZeroDivisionError", "Analysis.get_team_possession_stats")
              /\ pc' = "raised"
              /\ UNCHANGED ret
           \/ /\ home_count + away_count # 0
              /\ ret' = TeamShares(match.home_team_name, match.away_team_name,
                                   home_count, away_count)
              /\ pc' = "team_stats_done"
              /\ UNCHANGED exc
    /\ UNCHANGED <<match_json, structured_json, match, scan_vars>>

----------------------------------------------------------------------------
(* Analysis.get_player_possession_stats *)

\* the filter of the list comprehension: `if m.possession_id`
CountsPossession(m) == Truthy(m.possession_id)

\* [id_to_name.get(m.possession_id, None) for m in moments if m.possession_id]
RECURSIVE PossessorNames(_, _)
PossessorNames(ms, id_to_name) ==
    IF ms = <<>> THEN <<>>
    ELSE (IF CountsPossession(ms[1])
          THEN <<DictGet(id_to_name, ms[1].possession_id, None)>> ELSE <<>>)
         \o PossessorNames(Tail(ms), id_to_name)

\* the returned Counter: the names in most_common order, each with its share
PlayerShares(ms, id_to_name) ==
    LET raw_counts == CounterOf(PossessorNames(ms, id_to_name))
        common == MostCommon(raw_counts)
    IN  [i \in 1..Len(common) |->
            <<common[i][1],
              NpRound(DictGet(raw_counts, common[i][1], 0), SumValues(raw_counts),
                      PLAYER_DECIMALS)>>]

GetPlayerPossessionStats ==
    /\ pc = "ready"
    /\ ret' = PlayerShares(match.moments, match.id_to_name)
    /\ pc' = "player_stats_done"
    /\ UNCHANGED <<match_json, structured_json, exc, match, scan_vars>>

----------------------------------------------------------------------------
(* Analysis.get_possession_strings and _build_possession_strings *)

\* get_possession_strings calls _build_possession_strings, which sets its locals
\* and sorts the moments
BuildPossessionStrings ==
    /\ pc = "ready"
    /\ sorted_moments' = SortedByFrame(match.moments)
    /\ idx' = 1
    /\ possession_strings' = <<>>
    /\ previous_possession' = None
    /\ possession_buffer' = <<>>
    /\ pc' = "scan"
    /\ UNCHANGED <<match_json, structured_json, exc, match, ret>>

\* StartsNewString as it would be if frames without a group joined the running string
StartsNewStringSkippingNull(previous, m) ==
    m.possession_group # None /\ previous # m.possession_group

\* the test of the loop body
StartsNewString(previous, m) == previous # m.possession_group

\* the loop body, the branch that creates a new string
ScanNewString ==
    /\ pc = "scan"
    /\ idx <= Len(sorted_moments)
    /\ StartsNewString(previous_possession, sorted_moments[idx])
    /\ possession_strings' = Append(possession_strings, possession_buffer)
    /\ possession_buffer' = <<sorted_moments[idx]>>
    /\ previous_possession' = sorted_moments[idx].possession_group
    /\ idx' = idx + 1
    /\ UNCHANGED <<match_json, structured_json, pc, exc, match, sorted_moments, ret>>

\* the loop body, the branch that continues the existing string
ScanContinue ==
    /\ pc = "scan"
    /\ idx <= Len(sorted_moments)
    /\ ~StartsNewString(previous_possession, sorted_moments[idx])
    /\ possession_buffer' = Append(possession_buffer, sorted_moments[idx])
    /\ previous_possession' = sorted_moments[idx].possession_group
    /\ idx' = idx + 1
    /\ UNCHANGED <<match_json, structured_json, pc, exc, match, sorted_moments,
                   possession_strings, ret>>

\* the filter of the return: set([pp.possession_group for pp in p]) != {None}
KeepsString(p) == {p[i].possession_group : i \in 1..Len(p)} # {None}

RECURSIVE FilterStrings(_)
FilterStrings(strings) ==
    IF strings = <<>> THEN <<>>
    ELSE (IF KeepsString(strings[1]) THEN <<strings[1]>> ELSE <<>>)
         \o FilterStrings(Tail(strings))

\* the loop is over: _build_possession_strings returns the filtered list
ReturnPossessionStrings ==
    /\ pc = "scan"
    /\ idx > Len(sorted_moments)
    /\ ret' = FilterStrings(possession_strings)
    /\ pc' = "built"
    /\ UNCHANGED <<match_json, structured_json, exc, match, scan_vars>>

\* StringOfPossession.__init__ reads string_of_possession[0]
StringOfPossessionRaises(string_of_possession) == string_of_possession = <<>>

\* StringOfPossession.__init__: the attributes it assigns
StringOfPossession(string_of_possession, n2i, i2n) ==
    [team    |-> string_of_possession[1].possession_group,
     moments |-> string_of_possession,
     n2i     |-> n2i,
     i2n     |-> i2n]

\* get_possession_strings wraps each raw string
WrapPossessionStrings ==
    /\ pc = "built"
    /\ \/ /\ \E i \in 1..Len(ret) : StringOfPossessionRaises(ret[i])
          /\ exc' = Raised("IndexError", "StringOfPossession.__init__")
          /\ pc' = "raised"
          /\ UNCHANGED ret
       \/ /\ \A i \in 1..Len(ret) : ~StringOfPossessionRaises(ret[i])
          /\ ret' = [i \in 1..Len(ret) |->
                        StringOfPossession(ret[i], match.name_to_id, match.id_to_name)]
          /\ pc' = "strings"
          /\ UNCHANGED exc
    /\ UNCHANGED <<match_json, structured_json, match, scan_vars>>

----------------------------------------------------------------------------
(* StringOfPossession.__repr__ *)

\* the loop of __repr__ over the moments ms: "<s>", then one name per change
\* of a truthy holder id (the text is these, joined by " -> "); i2n[id] of an
\* id that is no key raises KeyError
RECURSIVE ReprFrom(_, _, _)
ReprFrom(ms, previous, i2n) ==
    IF ms = <<>> THEN <<>>
    ELSE IF Truthy(ms[1].possession_id) /\ previous # ms[1].possession_id
         THEN <<DictGet(i2n, ms[1].possession_id, "KeyError")>>
              \o ReprFrom(Tail(ms), ms[1].possession_id, i2n)
         ELSE ReprFrom(Tail(ms), previous, i2n)

\* the attribute __repr__ iterates: self.string_of_possession
ReprAttribute == "string_of_possession"

\* __repr__ of the object sop: an attribute that __init__ never assigned raises
Repr ==
    /\ pc = "strings"
    /\ \E k \in 1..Len(ret) :
          IF ReprAttribute \in DOMAIN ret[k]
          THEN /\ ret' = <<"<s>">> \o ReprFrom(ret[k][ReprAttribute], None, ret[k].i2n)
               /\ pc' = "repr_done"
               /\ UNCHANGED exc
          ELSE /\ exc' = Raised("AttributeError", "StringOfPossession.__repr__")
               /\ pc' = "raised"
               /\ UNCHANGED ret
    /\ UNCHANGED <<match_json, structured_json, match, scan_vars>>

----------------------------------------------------------------------------
(* The input documents *)

SeqsUpTo(S, n) == UNION {[1..k -> S] : k \in 0..n}

\* a team entry of the metadata; an absent entry reads as None twice
Team(acronym, id) == [acronym |-> acronym, id |-> id]

AbsentTeam == Team(None, None)

PlayerJson(id, name, team) ==
    [trackable_object |-> id, last_name |-> name, team_id |-> team]

\* a frame record with its possession entry, and one without
FrameJson(frame, id, group) ==
    [frame |-> frame, possession |-> Some([trackable_object |-> id, group |-> group])]

FrameNoPossession(frame) == [frame |-> frame, possession |-> None]

MatchJson(home, away, ball, referees, players) ==
    [home_team |-> home, away_team |-> away, ball |-> ball,
     referees |-> referees, players |-> players]

HomeTeam == Team(Some("HOM"), Some(1))
AwayTeam == Team(Some("AWY"), Some(2))

\* a well-formed match: three players, one of them with identifier 0
GoodMatch ==
    MatchJson(HomeTeam, AwayTeam, Some(55), <<Some(56)>>,
              <<PlayerJson(Some(7), Some("Silva"), Some(1)),
                PlayerJson(Some(8), Some("Costa"), Some(2)),
                PlayerJson(Some(0), Some("Nunes"), Some(1))>>)

\* no team entries at all: both names and both ids read as None
NoTeamsMatch ==
    MatchJson(AbsentTeam, AbsentTeam, Some(55), <<Some(56)>>,
              <<PlayerJson(Some(7), Some("Silva"), None)>>)

NoRefereesMatch == [GoodMatch EXCEPT !.referees = <<>>]

StrangerMatch ==
    [GoodMatch EXCEPT !.players = <<PlayerJson(Some(7), Some("Silva"), Some(1)),
                                    PlayerJson(Some(8), Some("Costa"), Some(9))>>]

SampleMatches == {GoodMatch, NoTeamsMatch, NoRefereesMatch, StrangerMatch}

PlayerJsons ==
    {PlayerJson(id, name, team) :
        id \in {Some(7), Some(8)},
        name \in {Some("Silva"), Some("Costa")},
        team \in {None, Some(1), Some(2), Some(9)}}

\* rosters whose identifiers are pairwise distinct (they are assigned so)
Rosters ==
    {ps \in SeqsUpTo(PlayerJsons, MaxPlayers) :
        \A i, j \in 1..Len(ps) :
            ps[i].trackable_object = ps[j].trackable_object => i = j}

AllMatches ==
    {MatchJson(home, away, ball, referees, players) :
        home \in {AbsentTeam, HomeTeam},
        away \in {AbsentTeam, AwayTeam},
        ball \in {None, Some(55)},
        referees \in {<<>>, <<Some(56)>>},
        players \in Rosters}

Groups == {None, Some(HOME_GROUP), Some(AWAY_GROUP)}

\* the holder that goes with a group where the holder does not matter
HolderOf(group) ==
    IF group = Some(HOME_GROUP) THEN Some(7)
    ELSE IF group = Some(AWAY_GROUP) THEN Some(8) ELSE None

\* the frames of the given groups, in frame order
FramesOfGroups(groups) ==
    [i \in 1..Len(groups) |-> FrameJson(i, HolderOf(groups[i]), groups[i])]

\* the frames of the given holders, in frame order, nobody's group known
FramesOfHolders(holders) ==
    [i \in 1..Len(holders) |-> FrameJson(i, holders[i], None)]

\* groups [A, A, null, B, B, B, null]
SegmentationExample ==
    FramesOfGroups(<<Some(HOME_GROUP), Some(HOME_GROUP), None, Some(AWAY_GROUP),
                     Some(AWAY_GROUP), Some(AWAY_GROUP), None>>)

\* possessors [P1, P1, P2, P1, None, P2]
PlayerShareExample ==
    FramesOfHolders(<<Some(7), Some(7), Some(8), Some(7), None, Some(8)>>)

\* 3 home frames and 2 away frames among frames of no or another group
TeamShareExample ==
    FramesOfGroups(<<Some(HOME_GROUP), None, Some(AWAY_GROUP), Some(HOME_GROUP),
                     Some("Home Team"), Some(AWAY_GROUP), Some(HOME_GROUP)>>)

SampleFrames ==
    {<<>>,
     FramesOfGroups(<<None, Some(HOME_GROUP), Some(HOME_GROUP), None>>),
     FramesOfGroups(<<Some(HOME_GROUP), Some(AWAY_GROUP)>>),
     <<FrameNoPossession(1)>>}

\* frames in any order of their indices, equal indices included
SegFrames ==
    SeqsUpTo({FrameJson(f, HolderOf(g), g) : f \in 1..MaxFrameIdx, g \in Groups},
             MaxSegFrames)
    \cup {SegmentationExample}

TeamStatFrames ==
    {FramesOfGroups(gs) : gs \in SeqsUpTo(Groups \cup {Some("Home Team")}, MaxStatFrames)}
    \cup {TeamShareExample}

PlayerStatFrames ==
    {FramesOfHolders(hs) :
        hs \in SeqsUpTo({None, Some(0), Some(7), Some(8), Some(9)}, MaxStatFrames)}
    \cup {PlayerShareExample}

----------------------------------------------------------------------------
(* Specifications *)

InitWith(matches, frames) ==
    /\ match_json \in matches
    /\ structured_json \in frames
    /\ pc = "team_info"
    /\ exc = NoExc
    /\ match = NewMatch
    /\ sorted_moments = <<>>
    /\ idx = 1
    /\ possession_strings = <<>>
    /\ previous_possession = None
    /\ possession_buffer = <<>>
    /\ ret = None

Next ==
    \/ GetTeamInfo
    \/ GetReferee
    \/ GetAllPlayers
    \/ BuildLookups
    \/ BuildMoments
    \/ GetTeamPossessionStats
    \/ GetPlayerPossessionStats
    \/ BuildPossessionStrings
    \/ ScanNewString
    \/ ScanContinue
    \/ ReturnPossessionStrings
    \/ WrapPossessionStrings
    \/ Repr

\* every metadata document, a few frame lists
Init == InitWith(AllMatches, SampleFrames)

Spec == Init /\ [][Next]_vars

\* every frame list for segmentation
InitSeg ==
    \/ InitWith({GoodMatch}, SegFrames)
    \/ InitWith(SampleMatches, SampleFrames)

SpecSeg == InitSeg /\ [][Next]_vars

\* every list of groups for the team shares
InitTeamStats ==
    \/ InitWith({GoodMatch, NoTeamsMatch}, TeamStatFrames)
    \/ InitWith(SampleMatches, SampleFrames)

SpecTeamStats == InitTeamStats /\ [][Next]_vars

\* every list of holders for the player shares
InitPlayerStats ==
    \/ InitWith({GoodMatch}, PlayerStatFrames)
    \/ InitWith(SampleMatches, SampleFrames)

SpecPlayerStats == InitPlayerStats /\ [][Next]_vars

----------------------------------------------------------------------------
(* Properties *)

Abs(x) == IF x < 0 THEN -x ELSE x

\* share is n/m to the nearest 10^-decimals
IsRounded(share, n, m, decimals) == 2 * Abs(share * m - n * Pow10(decimals)) <= m

ConstructionSites ==
    {"Match._get_referee", "Match._get_all_players", "Moment._get_possession"}

\* Match.__init__ has returned or raised
ConstructionEnded == pc \notin {"team_info", "referee", "players", "lookups", "moments"}

\* Match.__init__ has returned: a Match exists
Constructed == ConstructionEnded /\ exc.in \notin ConstructionSites

\* the starts of the maximal runs of one non-null group in ms
RunStarts(ms) ==
    {i \in 1..Len(ms) :
        /\ ms[i].possession_group # None
        /\ i = 1 \/ ms[i - 1].possession_group # ms[i].possession_group}

\* the end of the maximal run that starts at i
RunEnd(ms, i) ==
    CHOOSE j \in i..Len(ms) :
        /\ \A k \in i..j : ms[k].possession_group = ms[i].possession_group
        /\ j = Len(ms) \/ ms[j + 1].possession_group # ms[i].possession_group

\* the maximal runs of one non-null group in ms, in order of occurrence
MaximalRuns(ms) ==
    [n \in 1..Cardinality(RunStarts(ms)) |->
        LET i == CHOOSE s \in RunStarts(ms) :
                     Cardinality({t \in RunStarts(ms) : t < s}) = n - 1
        IN  SubSeq(ms, i, RunEnd(ms, i))]

RECURSIVE TotalLen(_)
TotalLen(strings) == IF strings = <<>> THEN 0 ELSE Len(strings[1]) + TotalLen(Tail(strings))

\* C1: possession segmentation returns exactly the maximal runs of consecutive
\* frames, in frame order, that share one non-null group, in order of
\* occurrence, and no empty or all-null segment.
C1_ExactlyTheMaximalRuns ==
    pc = "built" => ret = MaximalRuns(SortedByFrame(match.moments))

\* C2: the frames of the returned segments are at most the input frames, and
\* as many exactly when no input frame has a null group.
C2_SurvivingFramesCount ==
    pc = "built" =>
        /\ TotalLen(ret) <= Len(match.moments)
        /\ TotalLen(ret) = Len(match.moments)
             <=> \A i \in 1..Len(match.moments) : match.moments[i].possession_group # None

\* C3: construction never fails because a field is absent: metadata without
\* referees gives a null referee id, a frame record without possession gives a
\* Moment with a null holder and a null group.
C3_AbsentFieldsNeverFail ==
    /\ exc.in \notin {"Match._get_referee", "Moment._get_possession"}
    /\ ConstructionEnded /\ match_json.referees = <<>> => match.referee_id = None
    /\ ConstructionEnded =>
          /\ Len(match.moments) = Len(structured_json)
          /\ \A i \in 1..Len(structured_json) :
                structured_json[i].possession = None =>
                    /\ match.moments[i].possession_id = None
                    /\ match.moments[i].possession_group = None

TeamStatsCalled ==
    pc = "team_stats_done" \/ exc.in = "Analysis.get_team_possession_stats"

NoRecognisedGroup ==
    \A i \in 1..Len(match.moments) :
        match.moments[i].possession_group \notin {Some(HOME_GROUP), Some(AWAY_GROUP)}

\* C4: with no frame labelled "home team" or "away team" the team shares are an
\* explicit no-data result: the call neither raises nor returns a zero share.
C4_NoDataIsExplicit ==
    TeamStatsCalled /\ NoRecognisedGroup =>
        /\ exc = NoExc
        /\ \A k \in 1..Len(ret) : ret[k][2] # 0

\* some player of the metadata belongs to neither team
SomeStranger ==
    \E i \in 1..Len(match_json.players) :
        match_json.players[i].team_id
            \notin {match_json.home_team.id, match_json.away_team.id}

InList(x, list) == \E j \in 1..Len(list) : list[j] = x

\* C5: construction raises the id-mismatch error exactly when some player's
\* team id is neither team's, before any frame is built; when construction
\* succeeds every player is in exactly one partition, under a registered id.
C5_IdMismatchExactly ==
    ConstructionEnded =>
        /\ exc.type = "IdMismatchException" <=> SomeStranger
        /\ exc.type = "IdMismatchException" => match.moments = <<>>
        /\ Constructed =>
              \A i \in 1..Len(match_json.players) :
                 LET p == Player(match_json.players[i])
                 IN  /\ InList(p, match.home_team_players)
                            # InList(p, match.away_team_players)
                     /\ p.team_id \in {match.home_team_id, match.away_team_id}

\* C6: after a successful construction id_to_name and name_to_id are inverses
\* of each other, with one entry per player, ball and referee.
C6_LookupsAreInverses ==
    Constructed =>
        /\ \A i \in 1..Len(match.id_to_name) :
              /\ DictHas(match.name_to_id, match.id_to_name[i][2])
              /\ DictGet(match.name_to_id, match.id_to_name[i][2], None)
                    = match.id_to_name[i][1]
        /\ \A i \in 1..Len(match.name_to_id) :
              /\ DictHas(match.id_to_name, match.name_to_id[i][2])
              /\ DictGet(match.id_to_name, match.name_to_id[i][2], None)
                    = match.name_to_id[i][1]
        /\ Len(match.id_to_name) = Len(match.all_players) + 2
        /\ Len(match.name_to_id) = Len(match.all_players) + 2

\* the frames with a non-null possessor, and the names they resolve to
Possessed == {i \in 1..Len(match.moments) : match.moments[i].possession_id # None}

NameAt(i) == DictGet(match.id_to_name, match.moments[i].possession_id, None)

FramesOf(name) == {i \in Possessed : NameAt(i) = name}

FirstFrameOf(name) == CHOOSE i \in FramesOf(name) : \A j \in FramesOf(name) : i <= j

\* C7: the player shares count every frame with a non-null possessor under the
\* possessor's name, leave out exactly the frames with a null possessor, give
\* count/total to 2 decimals, by descending count, ties first-encountered first.
C7_PlayerShares ==
    pc = "player_stats_done" =>
        /\ \A i \in Possessed :
              \E k \in 1..Len(ret) :
                 /\ ret[k][1] = NameAt(i)
                 /\ IsRounded(ret[k][2], Cardinality(FramesOf(NameAt(i))),
                              Cardinality(Possessed), PLAYER_DECIMALS)
        /\ \A k \in 1..Len(ret) : FramesOf(ret[k][1]) # {}
        /\ \A k, l \in 1..Len(ret) :
              k < l =>
                 LET ck == Cardinality(FramesOf(ret[k][1]))
                     cl == Cardinality(FramesOf(ret[l][1]))
                 IN  /\ ret[k][1] # ret[l][1]
                     /\ ck >= cl
                     /\ ck = cl => FirstFrameOf(ret[k][1]) < FirstFrameOf(ret[l][1])

HomeFrames ==
    {i \in 1..Len(match.moments) : match.moments[i].possession_group = Some(HOME_GROUP)}

AwayFrames ==
    {i \in 1..Len(match.moments) : match.moments[i].possession_group = Some(AWAY_GROUP)}

\* one share per team, each its label's count over the two counts, to 3
\* decimals, the two summing to 1 within a rounding step
TeamSharesAsClaimed ==
    LET h == Cardinality(HomeFrames)
        a == Cardinality(AwayFrames)
    IN  /\ Len(ret) = 2
        /\ ret[1][1] = match.home_team_name
        /\ IsRounded(ret[1][2], h, h + a, TEAM_DECIMALS)
        /\ ret[2][1] = match.away_team_name
        /\ IsRounded(ret[2][2], a, h + a, TEAM_DECIMALS)
        /\ Abs(ret[1][2] + ret[2][2] - Pow10(TEAM_DECIMALS)) <= 1

\* C8 as stated: for every match with a frame labelled "home team" or "away
\* team" the team shares are one per team, count over the sum of both counts.
C8_TeamSharesEveryMatch ==
    pc = "team_stats_done" => TeamSharesAsClaimed

\* C8, amended: the same for every such match whose two team names differ.
C8_TeamSharesDistinctNames ==
    pc = "team_stats_done" /\ match.home_team_name # match.away_team_name
        => TeamSharesAsClaimed

\* 3 home frames, 2 away frames and frames of neither: 0.6 and 0.4
C8_Witness ==
    /\ pc = "team_stats_done"
    /\ match.home_team_name # match.away_team_name
    /\ Cardinality(HomeFrames) = 3
    /\ Cardinality(AwayFrames) = 2
    /\ Len(match.moments) > 5
    /\ ret = << <<Some("HOM"), 600>>, <<Some("AWY"), 400>> >>

\* C9: rendering a possession string succeeds, and gives "<s>" followed by the
\* names of the successive holders.
C9_ReprSucceeds ==
    /\ exc.in # "StringOfPossession.__repr__"
    /\ pc = "repr_done" => ret[1] = "<s>"

Homogeneous(p) ==
    \A i, j \in 1..Len(p) : p[i].possession_group = p[j].possession_group

\* C10: at every step of the scan and in its result, the frames of one segment
\* all carry the same group: never two groups, never null beside non-null.
C10_SegmentsHomogeneous ==
    /\ \A k \in 1..Len(possession_strings) : Homogeneous(possession_strings[k])
    /\ Homogeneous(possession_buffer)
    /\ pc = "built" => \A k \in 1..Len(ret) : Homogeneous(ret[k])
    /\ pc = "strings" => \A k \in 1..Len(ret) : Homogeneous(ret[k].moments)

\* out-of-order frames sorted and scanned into a run of two frames, a null
\* run and a run of the other group
C10_Witness ==
    /\ pc = "built"
    /\ sorted_moments # match.moments
    /\ \E k \in 1..Len(possession_strings) :
          /\ possession_strings[k] # <<>>
          /\ possession_strings[k][1].possession_group = None
    /\ possession_buffer # <<>>
    /\ \E k \in 1..Len(ret) :
          /\ Len(ret[k]) >= 2
          /\ possession_buffer[1].possession_group
                \notin {None, ret[k][1].possession_group}

====
